---- MODULE Spec2Model ----
(***************************************************************************)
(* DiamondJS runtime: the reactivity engine (ReactivityEngine), the        *)
(* microtask scheduler (Scheduler) and the derivation layer built on them. *)
(*                                                                         *)
(* One JavaScript realm, single threaded.  Every action below is one       *)
(* synchronous call made by application code while the call stack is       *)
(* otherwise empty (a write through a wrapper, createEffect, a disposer,   *)
(* createProxy, a read), or the flush microtask.  Consecutive application  *)
(* actions with no Flush in between form one synchronous window.           *)
(***************************************************************************)
EXTENDS Integers, Sequences, FiniteSets, TLC

(***************************************************************************)
(* Bounds of the model.                                                    *)
(***************************************************************************)
MaxVal == 1           \* primitive property values are 0..MaxVal
MaxEffects == 2       \* effect closures ever created, those of computed cells aside
MaxProxies == 3       \* Proxy instances ever created
MaxBinds == 1         \* bindings ever made
MaxCleanups == 2      \* cleanups registered with one component at a time
MaxChildren == 2      \* elements appended to the host at a time

(***************************************************************************)
(* Values.  Primitives are the naturals 0..MaxVal.  Object identities are  *)
(* negative: the two plain objects of the application are Root and Child   *)
(* (Child is what Root.b holds once it is assigned an object), and the     *)
(* i-th Proxy instance is ProxyRef(i).  typeof v === 'object' is v < 0.    *)
(***************************************************************************)
Root == 0 - 1
Child == 0 - 2
Objs == {Root, Child}
\* the instances of a class with a property decorated by the legacy
\* @reactive, and the objects that can become their backing stores
Instances == {1, 2}
StoreObjs == {0 - 10 - i : i \in Instances}
Props == {"a", "b"}
Prims == 0..MaxVal
ProxyRef(i) == Child - i
IsObject(v) == v < 0
Undefined == MaxVal + 1   \* the value of a variable declared without initialiser
Null == MaxVal + 2

Put(f, k, v) == [x \in (DOMAIN f) \cup {k} |-> IF x = k THEN v ELSE f[x]]
Drop(f, k) == [x \in (DOMAIN f) \ {k} |-> f[x]]
EmptyMap == [x \in {} |-> 0]
Range(s) == {s[i] : i \in DOMAIN s}
Without(s, e) == SelectSeq(s, LAMBDA x : x # e)
Count(s, e) == Cardinality({i \in DOMAIN s : s[i] = e})

(***************************************************************************)
(* Effect bodies: the functions passed to createEffect.  A body is a       *)
(* straight-line program over wrappers it closes over.                     *)
(***************************************************************************)
RdStmt(o, p) == [op |-> "read", o |-> o, p |-> p, v |-> 0, b |-> 0]
ThrowIfStmt(o, p, v) == [op |-> "throwIf", o |-> o, p |-> p, v |-> v, b |-> 0]
WrStmt(o, p, v) == [op |-> "write", o |-> o, p |-> p, v |-> v, b |-> 0]
EffectStmt(b) == [op |-> "effect", o |-> 0, p |-> "a", v |-> 0, b |-> b]
\* if (o.p === v) o.q
IfRdStmt(o, p, v, q) == [op |-> "readIf", o |-> o, p |-> p, v |-> v, b |-> 0, q |-> q]
\* the two statements of the function createComputed passes to createEffect
DirtyStmt == [op |-> "dirty", o |-> 0, p |-> "a", v |-> 0, b |-> 0]
GetterStmt == [op |-> "getter", o |-> 0, p |-> "a", v |-> 0, b |-> 0]
\* the two statements of the function DiamondCore.bind passes to effect
BindGetterStmt == [op |-> "bindGetter", o |-> 0, p |-> "a", v |-> 0, b |-> 0]
SinkStmt == [op |-> "sink", o |-> 0, p |-> "a", v |-> 0, b |-> 0]
\* inst.count, a property decorated with the legacy @reactive, of instance i
PropStmt(i) == [op |-> "prop", o |-> 0, p |-> "value", v |-> i, b |-> 0]
\* doubled(), a call of the accessor of computed cell c
AccessStmt(c) == [op |-> "access", o |-> 0, p |-> "a", v |-> c, b |-> 0]

\* 0: () => { dirty = true; getter() }     (built by createComputed)
\* 1: () => w.a
\* 2: () => { w.b; if (w.a === 1) throw new Error() }
\* 3: () => { createEffect(() => w.a); w.b }
\* 4: () => { if (w.a === 0) w.b }
\* 5: () => { w.a; w.a = 1 }
\* 6: () => {}
\* 7: () => { const value = getter(); el[property] = value }   (built by bind)
\* 8: () => first.count
\* 9: () => second.count
\* 10: () => doubled()
\* 11: () => w.b
BodyIds == {1, 2, 3}
Body(b) ==
  CASE b = 0 -> << DirtyStmt, GetterStmt >>
    [] b = 1 -> << RdStmt(Root, "a") >>
    [] b = 2 -> << RdStmt(Root, "b"), ThrowIfStmt(Root, "a", 1) >>
    [] b = 3 -> << EffectStmt(1), RdStmt(Root, "b") >>
    [] b = 4 -> << IfRdStmt(Root, "a", 0, "b") >>
    [] b = 5 -> << RdStmt(Root, "a"), WrStmt(Root, "a", 1) >>
    [] b = 6 -> << >>
    [] b = 7 -> << BindGetterStmt, SinkStmt >>
    [] b = 8 -> << PropStmt(1) >>
    [] b = 9 -> << PropStmt(2) >>
    [] b = 10 -> << AccessStmt(1) >>
    [] b = 11 -> << RdStmt(Root, "b") >>

\* functions passed to createComputed: a getter returns the last value it read
GetterIds == {1}
\* bodies with a conditional read and with a write
RunBodyIds == {4, 5}
\* bodies of the effects whose disposers are called again
DisposeBodyIds == {1, 6}
\* bodies of the effects created next to a body that can throw
ErrorBodyIds == {1, 2}
\* bodies that read a decorated property of an instance
PropBodyIds == {8, 9}
\* functions passed to bind as getter
BindGetterIds == {1}

\* computed cells whose accessor the body calls
Called(b) == {Body(b)[i].v : i \in {j \in DOMAIN Body(b) : Body(b)[j].op = "access"}}
\* effect closures one createEffect(Body(b)) call allocates
EffectsNeeded(b) == 1 + Cardinality({i \in DOMAIN Body(b) : Body(b)[i].op = "effect"})
\* objects whose wrappers the body (and the bodies it nests) closes over
RECURSIVE Captured(_)
Captured(b) ==
  UNION {IF Body(b)[i].op = "effect" THEN Captured(Body(b)[i].b) ELSE {Body(b)[i].o}
         : i \in DOMAIN Body(b)} \ {0}

VARIABLES
  heap,          \* the plain objects: heap[o][p]
  proxyTarget,   \* proxyTarget[i]: target of the i-th Proxy instance
  proxyCache,    \* ReactivityEngine.proxyCache: target -> proxy index
  activeEffect,  \* ReactivityEngine.activeEffect (0 is null)
  dependencies,  \* ReactivityEngine.dependencies: target -> prop -> Set (insertion order)
  effectDeps,    \* ReactivityEngine.effectDeps: effect -> set of <<target, prop>> dep sets
  queue,         \* Scheduler.queue (a Set, in insertion order)
  flushing,      \* Scheduler.flushing
  microtasks,    \* flush callbacks waiting in the host's microtask queue
  fn,            \* fn[e]: body of the e-th effect closure created
  cells,         \* computed cells: getter g, closures rec (effect) and inval, dirty, cached
  disposers,     \* effects whose disposer was returned to application code
  disposed,      \* effects whose disposer has been called
  everRead,      \* everRead[e]: <<target, prop>> read while e was the active effect
  handed,        \* handed[t]: every wrapper createProxy has returned for target t
  written,       \* effects found registered by a changing write since the last flush began
  dups,          \* since the last flush began, a changing write has found an effect of written again
  late,          \* effects handed to the scheduler by a write made after their disposal
  binds,         \* bindings made by DiamondCore.bind: effect e, getter g, the element
  storage,       \* storage[i]: this[storageKey] of instance i (0 is undefined)
  components,    \* components[c]: the fields element (0 is null) and cleanups
  host,          \* children of the host element, in document order
  pend,          \* live effects owed a re-run by a changing write to a property they read
  lastOp         \* the most recent call and what it did

vars == << heap, proxyTarget, proxyCache, activeEffect, dependencies, effectDeps,
           queue, flushing, microtasks, fn, cells, disposers, disposed, everRead,
           handed, written, dups, late, binds, storage, components, host, pend,
           lastOp >>

\* the realm as one record, threaded through the operators below
State ==
  [ heap |-> heap, proxyTarget |-> proxyTarget, proxyCache |-> proxyCache,
    activeEffect |-> activeEffect, dependencies |-> dependencies,
    effectDeps |-> effectDeps, queue |-> queue, flushing |-> flushing,
    microtasks |-> microtasks, fn |-> fn, cells |-> cells, disposed |-> disposed,
    everRead |-> everRead, handed |-> handed, written |-> written, dups |-> dups,
    late |-> late,
    binds |-> binds,
    storage |-> storage,
    components |-> components,
    host |-> host,
    pend |-> pend,
    thrown |-> FALSE,   \* an exception is propagating
    running |-> 0,      \* the effect whose body is executing (0: application code)
    reads |-> {},       \* << e, target, prop >>: the body of e read target.prop during this call
    inv |-> << >>,      \* effect closures invoked during this call, in order
    throws |-> 0,       \* exceptions thrown by bodies during this call
    logged |-> 0,       \* console.error calls during this call
    ret |-> Undefined,  \* the value the last read of the running function produced
    gets |-> 0,         \* getter invocations during this call
    clobber |-> FALSE,  \* a tracked run begun under an active dependent ended with another one active
    sinks |-> {},       \* bindings whose element property was assigned by their effect during this call
    setters |-> {},     \* bindings whose setter was called during this call
    ran |-> << >> ]     \* cleanups invoked during this call, in order


(***************************************************************************)
(* Scheduler (scheduler.ts)                                                *)
(***************************************************************************)
RECURSIVE effectFn(_, _)
RECURSIVE createEffect(_, _)
RECURSIVE access(_, _)

\* queueEffect with an Array for the queue: no deduplication
queueEffect_NoDedup(S, effect) ==
  LET S1 == [S EXCEPT !.queue = Append(@, effect)]
  IN  IF ~S1.flushing
      THEN [S1 EXCEPT !.flushing = TRUE, !.microtasks = @ + 1]
      ELSE S1

\* queueEffect that sets the flag but never calls queueMicrotask
queueEffect_NoMicrotask(S, effect) ==
  LET S1 == [S EXCEPT !.queue = IF effect \in Range(@) THEN @ ELSE Append(@, effect)]
  IN  IF ~S1.flushing THEN [S1 EXCEPT !.flushing = TRUE] ELSE S1

\* queueEffect that runs the effect on the spot instead of deferring it
queueEffect_Sync(S, effect) == effectFn(S, effect)

\* queueEffect that deletes the effect before adding it: a pending effect
\* scheduled again moves to the end
queueEffect_MoveToEnd(S, effect) ==
  LET S1 == [S EXCEPT !.queue = Append(Without(@, effect), effect)]
  IN  IF ~S1.flushing
      THEN [S1 EXCEPT !.flushing = TRUE, !.microtasks = @ + 1]
      ELSE S1

\* queueEffect without the flushing flag: one microtask for every call
queueEffect_NoFlag(S, effect) ==
  [S EXCEPT !.queue = IF effect \in Range(@) THEN @ ELSE Append(@, effect),
            !.microtasks = @ + 1]

\* queueEffect(effect): Set.add, then one microtask unless one is already requested
queueEffect(S, effect) ==
  LET S1 == [S EXCEPT !.queue = IF effect \in Range(@) THEN @ ELSE Append(@, effect)]
  IN  IF ~S1.flushing
      THEN [S1 EXCEPT !.flushing = TRUE, !.microtasks = @ + 1]
      ELSE S1

(***************************************************************************)
(* ReactivityEngine (reactivity.ts)                                        *)
(***************************************************************************)
\* createProxy(obj): the cached Proxy for obj, or a new one that is then cached
Hand(S, obj, px) ==
  [S EXCEPT !.handed = Put(@, obj, (IF obj \in DOMAIN @ THEN @[obj] ELSE {}) \cup {px})]

\* createProxy before v1.5: a new Proxy on every call
createProxy_NoCache(S, obj) ==
  LET i == Len(S.proxyTarget) + 1
  IN  [s |-> Hand([S EXCEPT !.proxyTarget = Append(@, obj)], obj, ProxyRef(i)),
       v |-> ProxyRef(i)]

\* createProxy that hands back what is not an object as it is
createProxy_PassThrough(S, obj) ==
  IF ~IsObject(obj) THEN [s |-> S, v |-> obj]
  ELSE IF obj \in DOMAIN S.proxyCache
  THEN [s |-> Hand(S, obj, ProxyRef(S.proxyCache[obj])),
        v |-> ProxyRef(S.proxyCache[obj])]
  ELSE LET i == Len(S.proxyTarget) + 1
       IN  [s |-> Hand([S EXCEPT !.proxyTarget = Append(@, obj),
                                 !.proxyCache = Put(@, obj, i)], obj, ProxyRef(i)),
            v |-> ProxyRef(i)]

\* proxyCache.has(obj) is false for what is not an object, and new Proxy
\* throws a TypeError for it
createProxy(S, obj) ==
  IF ~IsObject(obj)
  THEN [s |-> [S EXCEPT !.thrown = TRUE, !.throws = @ + 1], v |-> Undefined]
  ELSE IF obj \in DOMAIN S.proxyCache
  THEN [s |-> Hand(S, obj, ProxyRef(S.proxyCache[obj])),
        v |-> ProxyRef(S.proxyCache[obj])]
  ELSE LET i == Len(S.proxyTarget) + 1
       IN  [s |-> Hand([S EXCEPT !.proxyTarget = Append(@, obj),
                                 !.proxyCache = Put(@, obj, i)], obj, ProxyRef(i)),
            v |-> ProxyRef(i)]

\* trackDependency that adds the effect to the dep set only
trackDependency_NoReverse(S, target, prop) ==
  IF S.activeEffect = 0 THEN S
  ELSE LET e == S.activeEffect
           depsMap == IF target \in DOMAIN S.dependencies
                      THEN S.dependencies[target] ELSE EmptyMap
           dep == IF prop \in DOMAIN depsMap THEN depsMap[prop] ELSE << >>
           dep1 == IF e \in Range(dep) THEN dep ELSE Append(dep, e)
       IN  [S EXCEPT !.dependencies = Put(@, target, Put(depsMap, prop, dep1)),
                     !.everRead[e] = @ \cup {<< target, prop >>}]

\* trackDependency(target, prop): record the active effect on (target, prop)
trackDependency(S, target, prop) ==
  IF S.activeEffect = 0 THEN S
  ELSE LET e == S.activeEffect
           depsMap == IF target \in DOMAIN S.dependencies
                      THEN S.dependencies[target] ELSE EmptyMap
           dep == IF prop \in DOMAIN depsMap THEN depsMap[prop] ELSE << >>
           dep1 == IF e \in Range(dep) THEN dep ELSE Append(dep, e)
           effectSets == IF e \in DOMAIN S.effectDeps THEN S.effectDeps[e] ELSE {}
       IN  [S EXCEPT !.dependencies = Put(@, target, Put(depsMap, prop, dep1)),
                     !.effectDeps = Put(@, e, effectSets \cup {<< target, prop >>}),
                     !.everRead[e] = @ \cup {<< target, prop >>}]

\* the Set of effects currently registered on (target, prop), in insertion order
DepOf(S, target, prop) ==
  IF target \notin DOMAIN S.dependencies THEN << >>
  ELSE IF prop \notin DOMAIN S.dependencies[target] THEN << >>
  ELSE S.dependencies[target][prop]

RECURSIVE queueAll(_, _)
queueAll(S, dep) ==
  IF dep = << >> THEN S ELSE queueAll(queueEffect(S, Head(dep)), Tail(dep))

\* triggerEffects that ignores prop: every effect registered on the target
triggerEffects_AnyProp(S, target, prop) ==
  IF target \notin DOMAIN S.dependencies THEN S
  ELSE LET m == S.dependencies[target]
           all == {e \in DOMAIN S.fn : \E q \in DOMAIN m : e \in Range(m[q])}
           RECURSIVE each(_, _)
           each(T, es) == IF es = {} THEN T
                          ELSE LET e == CHOOSE x \in es : TRUE
                               IN  each(queueEffect(T, e), es \ {e})
       IN  each(S, all)

\* triggerEffects(target, prop): hand every effect of the dep set to the scheduler
triggerEffects(S, target, prop) ==
  IF target \notin DOMAIN S.dependencies THEN S
  ELSE IF prop \notin DOMAIN S.dependencies[target] THEN S
  ELSE queueAll(S, S.dependencies[target][prop])

\* bookkeeping of a changing write to (target, prop), taken before it propagates
NoteChange(S, target, prop) ==
  LET reg == Range(DepOf(S, target, prop))
  IN  [S EXCEPT !.written = @ \cup reg,
                !.dups = @ \/ (reg \cap S.written # {}),
                !.late = @ \cup (reg \cap S.disposed),
                !.pend = @ \cup {e \in DOMAIN S.fn :
                                   /\ << target, prop >> \in S.everRead[e]
                                   /\ e \notin S.disposed},
                !.cells = [c \in DOMAIN @ |->
                             IF << target, prop >> \in
                                  S.everRead[@[c].rec] \cup S.everRead[@[c].inval]
                             THEN [@[c] EXCEPT !.runs = 0]
                             ELSE @[c]]]

\* the Proxy get trap
get(S, target, prop) ==
  LET S0 == IF S.running = 0 THEN S
            ELSE [S EXCEPT !.reads = @ \cup {<< S.running, target, prop >>}]
      S1 == trackDependency(S0, target, prop)
      value == S1.heap[target][prop]
  IN  IF IsObject(value) THEN createProxy(S1, value) ELSE [s |-> S1, v |-> value]

\* the set trap without the change guard
set_NoGuard(S, target, prop, value) ==
  triggerEffects([S EXCEPT !.heap[target][prop] = value], target, prop)

\* the Proxy set trap
set(S, target, prop, value) ==
  LET oldValue == S.heap[target][prop]
      S1 == [S EXCEPT !.heap[target][prop] = value]
  IN  IF oldValue # value
      THEN triggerEffects(NoteChange(S1, target, prop), target, prop)
      ELSE S1

RECURSIVE RunBody(_, _)

\* the cell whose closure e is
CellOf(S, e) == CHOOSE c \in DOMAIN S.cells : e \in {S.cells[c].rec, S.cells[c].inval}

\* the binding whose effect e is
BindOf(S, e) == CHOOSE b \in DOMAIN S.binds : S.binds[b].e = e

\* getter(), called by a closure of cell c
callGetter(S, c) ==
  RunBody([S EXCEPT !.gets = @ + 1, !.cells[c].runs = @ + 1, !.ret = Undefined],
          Body(S.cells[c].g))

\* the statements that begin with a read through a wrapper, and the target
\* of that wrapper; the getter the legacy @reactive defines on the prototype
\* reads store.value through the wrapper kept in this[storageKey]
ReadOps == {"read", "readIf", "throwIf", "prop"}
Target(S, st) == IF st.op = "prop" THEN S.proxyTarget[S.storage[st.v]] ELSE st.o

RECURSIVE Exec(_, _)

\* what a reading statement does with the value r.v the get trap returned
Got(r, st) ==
  CASE st.op \in {"read", "prop"} -> [r.s EXCEPT !.ret = r.v]
    [] st.op = "readIf" ->
         IF r.v = st.v
         THEN Exec(r.s, RdStmt(st.o, st.q))
         ELSE [r.s EXCEPT !.ret = r.v]
    [] st.op = "throwIf" ->
         IF r.v = st.v
         THEN [r.s EXCEPT !.thrown = TRUE, !.throws = @ + 1]
         ELSE r.s

\* one statement of an effect body
Exec(S, st) ==
  CASE st.op = "prop" /\ S.storage[st.v] = 0 -> [S EXCEPT !.ret = Undefined]
    [] st.op \in ReadOps /\ ~(st.op = "prop" /\ S.storage[st.v] = 0) ->
         Got(get(S, Target(S, st), st.p), st)
    [] st.op = "dirty" -> [S EXCEPT !.cells[CellOf(S, S.running)].dirty = TRUE]
    [] st.op = "getter" -> callGetter(S, CellOf(S, S.running))
    [] st.op = "bindGetter" ->
         RunBody([S EXCEPT !.ret = Undefined], Body(S.binds[BindOf(S, S.running)].g))
    [] st.op = "sink" ->
         LET b == BindOf(S, S.running)
         IN  [S EXCEPT !.binds[b].shown = S.ret, !.sinks = @ \cup {b}]
    [] st.op = "access" -> LET r == access(S, st.v) IN [r.s EXCEPT !.ret = r.v]
    [] st.op = "write" -> set(S, st.o, st.p, st.v)
    [] st.op = "effect" -> createEffect(S, st.b)

\* fn(): the body runs until it returns or throws
RunBody(S, stmts) ==
  IF stmts = << >> \/ S.thrown THEN S
  ELSE RunBody(Exec(S, Head(stmts)), Tail(stmts))

\* effectFn without try/finally: a throwing body leaves activeEffect set
effectFn_NoFinally(S, e) ==
  LET S1 == [S EXCEPT !.activeEffect = e, !.inv = Append(@, e), !.running = e]
      S2 == RunBody(S1, Body(S1.fn[e]))
  IN  IF S2.thrown THEN [S2 EXCEPT !.running = S.running]
      ELSE [S2 EXCEPT !.activeEffect = 0, !.running = S.running,
                      !.clobber = @ \/ (S.activeEffect # 0)]

\* the closure effectFn of createEffect: activeEffect = effectFn; try fn() finally null
effectFn(S, e) ==
  LET S1 == [S EXCEPT !.activeEffect = e, !.inv = Append(@, e), !.running = e]
      S2 == RunBody(S1, Body(S1.fn[e]))
  IN  [S2 EXCEPT !.activeEffect = 0, !.running = S.running,
                 !.clobber = @ \/ (S.activeEffect # 0)]

\* createEffect that hands the new closure to the scheduler instead of
\* running it
createEffect_Deferred(S, b) ==
  LET e == Len(S.fn) + 1
  IN  queueEffect([S EXCEPT !.fn = Append(@, b)], e)

\* createEffect(fn): build the closure and run it at once; the disposer is
\* returned when that run does not throw
createEffect(S, b) ==
  LET e == Len(S.fn) + 1
  IN  effectFn([S EXCEPT !.fn = Append(@, b)], e)

\* the closure effect of createComputed: recompute when dirty
recompute(S, c) ==
  LET e == S.cells[c].rec
      S0 == [S EXCEPT !.inv = Append(@, e)]
  IN  IF S0.cells[c].dirty
      THEN LET S1 == [S0 EXCEPT !.activeEffect = e, !.running = e]
               S2 == callGetter(S1, c)
               S3 == [S2 EXCEPT !.activeEffect = 0, !.running = S.running,
                                !.clobber = @ \/ (S.activeEffect # 0)]
           IN  IF S3.thrown THEN S3
               ELSE [S3 EXCEPT !.cells[c].cached = S2.ret, !.cells[c].dirty = FALSE]
      ELSE S0

\* the function passed to createEffect neither setting dirty nor calling getter
createComputed_NoInvalidation(S, g) ==
  LET e == Len(S.fn) + 1
      cell == [g |-> g, rec |-> e, inval |-> e + 1, dirty |-> TRUE,
               cached |-> Undefined, runs |-> 0, accessed |-> FALSE]
  IN  createEffect([S EXCEPT !.cells = Append(@, cell), !.fn = Append(@, g)], 6)

\* createComputed(getter): cached and dirty, the closure effect, then the
\* invalidation effect made (and so run once) by createEffect
createComputed(S, g) ==
  LET e == Len(S.fn) + 1
      cell == [g |-> g, rec |-> e, inval |-> e + 1, dirty |-> TRUE,
               cached |-> Undefined,
               runs |-> 0,            \* getter invocations since a property it read last changed
               accessed |-> FALSE]    \* the accessor has been called
  IN  createEffect([S EXCEPT !.cells = Append(@, cell), !.fn = Append(@, g)], 0)

\* the accessor returned by createComputed
access(S, c) ==
  LET S0 == [S EXCEPT !.cells[c].accessed = TRUE]
      S1 == IF S0.cells[c].dirty THEN recompute(S0, c) ELSE S0
  IN  [s |-> S1, v |-> S1.cells[c].cached]

\* the queue holding fn itself instead of effectFn: a re-run is not tracked
invoke_Raw(S, e) ==
  IF \E c \in DOMAIN S.cells : S.cells[c].rec = e
  THEN recompute(S, CellOf(S, e))
  ELSE LET S1 == [S EXCEPT !.inv = Append(@, e), !.running = e]
       IN  [RunBody(S1, Body(S1.fn[e])) EXCEPT !.running = S.running]

\* effect(): a function taken from the queue is either a closure built by
\* createEffect or the closure effect of a computed cell
invoke(S, e) ==
  IF \E c \in DOMAIN S.cells : S.cells[c].rec = e
  THEN recompute(S, CellOf(S, e))
  ELSE effectFn(S, e)

\* cleanupEffect that empties the dep sets of the effect instead of deleting
\* the effect from them
cleanupEffect_ClearSets(S, effect) ==
  IF effect \in DOMAIN S.effectDeps
  THEN [S EXCEPT
          !.dependencies =
             [t \in DOMAIN S.dependencies |->
                [p \in DOMAIN S.dependencies[t] |->
                   IF << t, p >> \in S.effectDeps[effect]
                   THEN << >>
                   ELSE S.dependencies[t][p]]],
          !.effectDeps = Drop(@, effect)]
  ELSE S

\* cleanupEffect without the test of effectSets: iterating undefined throws
cleanupEffect_NoCheck(S, effect) ==
  IF effect \in DOMAIN S.effectDeps
  THEN [S EXCEPT
          !.dependencies =
             [t \in DOMAIN S.dependencies |->
                [p \in DOMAIN S.dependencies[t] |->
                   IF << t, p >> \in S.effectDeps[effect]
                   THEN Without(S.dependencies[t][p], effect)
                   ELSE S.dependencies[t][p]]],
          !.effectDeps = Drop(@, effect)]
  ELSE [S EXCEPT !.thrown = TRUE]

\* cleanupEffect(effect): delete the effect from its dep sets, drop its entry
cleanupEffect(S, effect) ==
  IF effect \in DOMAIN S.effectDeps
  THEN [S EXCEPT
          !.dependencies =
             [t \in DOMAIN S.dependencies |->
                [p \in DOMAIN S.dependencies[t] |->
                   IF << t, p >> \in S.effectDeps[effect]
                   THEN Without(S.dependencies[t][p], effect)
                   ELSE S.dependencies[t][p]]],
          !.effectDeps = Drop(@, effect)]
  ELSE S

\* the loop of flush without try/catch: the first throw ends it
RECURSIVE runAll_NoCatch(_, _)
runAll_NoCatch(S, effects) ==
  IF effects = << >> \/ S.thrown THEN S
  ELSE runAll_NoCatch(invoke([S EXCEPT !.pend = @ \ {Head(effects)}], Head(effects)),
                      Tail(effects))

\* the loop of flush: each effect inside its own try/catch
RECURSIVE runAll(_, _)
runAll(S, effects) ==
  IF effects = << >> THEN S
  ELSE LET e == Head(effects)
           S1 == invoke([S EXCEPT !.pend = @ \ {e}], e)
           S2 == IF S1.thrown
                 THEN [S1 EXCEPT !.thrown = FALSE, !.logged = @ + 1]
                 ELSE S1
       IN  runAll(S2, Tail(effects))

\* flush that never resets the flag
flush_KeepFlag(S) ==
  LET effects == S.queue
      S1 == [S EXCEPT !.queue = << >>,
                      !.written = {}, !.dups = FALSE, !.late = {}]
  IN  runAll(S1, effects)

\* flush that resets the flag after the loop instead of before it
flush_FlagAfter(S) ==
  LET effects == S.queue
      S1 == [S EXCEPT !.queue = << >>,
                      !.written = {}, !.dups = FALSE, !.late = {}]
  IN  [runAll(S1, effects) EXCEPT !.flushing = FALSE]

\* Scheduler.flush: snapshot, clear, reset the flag, then run
flush(S) ==
  LET effects == S.queue
      S1 == [S EXCEPT !.queue = << >>, !.flushing = FALSE,
                      !.written = {}, !.dups = FALSE, !.late = {}]
  IN  runAll(S1, effects)

(***************************************************************************)
(* DiamondCore (core.ts)                                                   *)
(***************************************************************************)
\* makeReactive(target, property): an object value is replaced by what
\* DiamondCore.reactive returns for it; target is the component instance
\* itself, so the assignment goes through no trap
makeReactive(S, target, property) ==
  LET value == S.heap[target][property]
  IN  IF value # Null /\ IsObject(value)
      THEN LET r == createProxy(S, value)
           IN  [r.s EXCEPT !.heap[target][property] = r.v]
      ELSE S

\* the setter application code passes to bind: (v) => { w.a = v }
setter(S, v) == set(S, Root, "a", v)

\* bind(element, property, getter, setter?): the effect that assigns
\* el[property], then the listener when a setter is given
bind(S, g, two) ==
  LET e == Len(S.fn) + 1
      binding == [e |-> e, g |-> g, two |-> two,
                  shown |-> Undefined,    \* el[property]
                  listening |-> FALSE,    \* handler is a listener of the element
                  cleaned |-> FALSE]      \* the cleanup function has been called
      S1 == createEffect([S EXCEPT !.binds = Append(@, binding)], 7)
  IN  IF S1.thrown \/ ~two THEN S1
      ELSE [S1 EXCEPT !.binds[Len(S.binds) + 1].listening = TRUE]

\* the cleanup function bind returns: cleanupEffect(), cleanupListener?.()
unbind(S, b) ==
  LET S1 == cleanupEffect(S, S.binds[b].e)
  IN  [S1 EXCEPT !.binds[b].listening = FALSE, !.binds[b].cleaned = TRUE]

\* the input event with a handler that reads el[property] and drops it
input_NoSetter(S, b, v) == [S EXCEPT !.binds[b].shown = v]

\* the user edits the element and the element dispatches its input event:
\* handler reads el[property] and calls setter
input(S, b, v) ==
  LET S1 == [S EXCEPT !.binds[b].shown = v]
  IN  IF S1.binds[b].listening
      THEN setter([S1 EXCEPT !.setters = @ \cup {b}], S1.binds[b].shown)
      ELSE S1

(***************************************************************************)
(* The legacy @reactive decorator (decorators.ts)                          *)
(***************************************************************************)
\* the object literal { value: newValue }: an object that did not exist
NewObject(S) == CHOOSE o \in StoreObjs : o \notin DOMAIN S.heap

\* the setter with the store in a variable of the decorator call, which all
\* instances of the class share
reactiveSet_Shared(S, i, newValue) ==
  IF S.storage[1] = 0
  THEN LET o == NewObject(S)
           r == createProxy([S EXCEPT !.heap = Put(@, o, [value |-> newValue])], o)
       IN  [r.s EXCEPT !.storage = [j \in Instances |-> Child - r.v]]
  ELSE set(S, S.proxyTarget[S.storage[1]], "value", newValue)

\* the setter the legacy @reactive defines on the prototype, called on
\* instance i: the first assignment makes the store, later ones write it
reactiveSet(S, i, newValue) ==
  IF S.storage[i] = 0
  THEN LET o == NewObject(S)
           r == createProxy([S EXCEPT !.heap = Put(@, o, [value |-> newValue])], o)
       IN  [r.s EXCEPT !.storage[i] = Child - r.v]
  ELSE set(S, S.proxyTarget[S.storage[i]], "value", newValue)

(***************************************************************************)
(* Component (component.ts)                                                *)
(***************************************************************************)
\* the component instances of the application: 1 is of a class that
\* implements createTemplate, 2 of a class that inherits the default one
Components == {1, 2}
Implements(c) == c = 1

\* the functions application code registers as cleanups:
\* 1: () => {}      2: () => { throw new Error() }
CleanupIds == {1, 2}
CleanupThrows(k) == k = 2

\* document.createElement: an element that is neither a child of the host nor
\* the element of a component
NewElement(S) ==
  CHOOSE n \in 1..(MaxChildren + 3) :
     /\ n \notin Range(S.host)
     /\ \A c \in Components : S.components[c].element # n

\* createTemplate(): the override builds an element, the default throws
createTemplate(S, c) ==
  IF Implements(c)
  THEN [s |-> S, v |-> NewElement(S)]
  ELSE [s |-> [S EXCEPT !.thrown = TRUE, !.throws = @ + 1], v |-> 0]

\* mount(hostElement)
mount(S, c) ==
  LET r == createTemplate(S, c)
  IN  IF r.s.thrown THEN r.s
      ELSE [r.s EXCEPT !.components[c].element = r.v, !.host = Append(@, r.v)]

\* the loop of unmount without try/catch: the first throw ends unmount
RECURSIVE runCleanups_NoCatch(_, _)
runCleanups_NoCatch(S, list) ==
  IF list = << >> \/ S.thrown THEN S
  ELSE LET k == Head(list)
           S1 == [S EXCEPT !.ran = Append(@, k)]
           S2 == IF CleanupThrows(k)
                 THEN [S1 EXCEPT !.thrown = TRUE, !.throws = @ + 1]
                 ELSE S1
       IN  runCleanups_NoCatch(S2, Tail(list))

\* the loop of unmount: each cleanup inside its own try/catch
RECURSIVE runCleanups(_, _)
runCleanups(S, list) ==
  IF list = << >> THEN S
  ELSE LET k == Head(list)
           S1 == [S EXCEPT !.ran = Append(@, k)]
           S2 == IF CleanupThrows(k)
                 THEN [S1 EXCEPT !.throws = @ + 1, !.logged = @ + 1]
                 ELSE S1
       IN  runCleanups(S2, Tail(list))

\* unmount that does not reset the element field
unmount_KeepElement(S, c) ==
  LET S1 == runCleanups(S, S.components[c].cleanups)
  IN  IF S1.thrown THEN S1
      ELSE [S1 EXCEPT !.components[c].cleanups = << >>,
                      !.host = Without(@, S1.components[c].element)]

\* unmount(): the cleanups, then the list, then the element
unmount(S, c) ==
  LET S1 == runCleanups(S, S.components[c].cleanups)
  IN  IF S1.thrown THEN S1
      ELSE [S1 EXCEPT !.components[c].cleanups = << >>,
                      !.host = Without(@, S1.components[c].element),
                      !.components[c].element = 0]

\* registerCleanup(cleanup)
registerCleanup(S, c, k) ==
  [S EXCEPT !.components[c].cleanups = Append(@, k)]

(***************************************************************************)
(* The state machine                                                       *)
(***************************************************************************)
NoOp ==
  [op |-> "init",
   changed |-> FALSE,   \* write: the value differed; wrap: a Proxy was constructed;
                        \* redispose: the effect had edges; flush: an edge was recorded
   multi |-> FALSE,     \* flush: several writes had found the same effect
   reads |-> {}, thrown |-> FALSE, inv |-> << >>, throws |-> 0, logged |-> 0,
   gets |-> 0,          \* getter invocations during the call
   clobber |-> FALSE,   \* a nested tracked run did not leave the outer dependent active
   ret |-> Undefined,   \* access: the value the accessor returned
   sinks |-> {},        \* bindings whose effect assigned the element property
   setters |-> {},      \* bindings whose setter was called
   ran |-> << >>,       \* cleanups invoked, in order
   who |-> 0,           \* mount, unmount, registerCleanup: the component
   arg |-> Undefined]   \* wrap: the argument

Op(name, S) ==
  [NoOp EXCEPT !.op = name, !.thrown = S.thrown, !.inv = S.inv, !.reads = S.reads,
               !.throws = S.throws, !.logged = S.logged, !.gets = S.gets,
               !.clobber = S.clobber, !.sinks = S.sinks, !.setters = S.setters,
               !.ran = S.ran]

Commit(S) ==
  /\ heap' = S.heap
  /\ proxyTarget' = S.proxyTarget
  /\ proxyCache' = S.proxyCache
  /\ activeEffect' = S.activeEffect
  /\ dependencies' = S.dependencies
  /\ effectDeps' = S.effectDeps
  /\ queue' = S.queue
  /\ flushing' = S.flushing
  /\ microtasks' = S.microtasks
  /\ fn' = S.fn
  /\ cells' = S.cells
  /\ everRead' = S.everRead
  /\ handed' = S.handed
  /\ written' = S.written
  /\ dups' = S.dups
  /\ late' = S.late
  /\ binds' = S.binds
  /\ storage' = S.storage
  /\ components' = S.components
  /\ host' = S.host
  /\ pend' = S.pend

Init ==
  /\ heap = [o \in Objs |-> [p \in Props |-> 0]]
  /\ proxyTarget = << >>
  /\ proxyCache = EmptyMap
  /\ activeEffect = 0
  /\ dependencies = EmptyMap
  /\ effectDeps = EmptyMap
  /\ queue = << >>
  /\ flushing = FALSE
  /\ microtasks = 0
  /\ fn = << >>
  /\ cells = << >>
  /\ disposers = {}
  /\ disposed = {}
  /\ everRead = [e \in 1..(2 * MaxEffects) |-> {}]
  /\ handed = [o \in Objs |-> {}]
  /\ written = {}
  /\ dups = FALSE
  /\ late = {}
  /\ binds = << >>
  /\ storage = [i \in Instances |-> 0]
  /\ components = [c \in Components |->
                     [element |-> 0, cleanups |-> << >>,
                      mounted |-> FALSE]]   \* a mount has returned since the last unmount
  /\ host = << >>
  /\ pend = {}
  /\ lastOp = NoOp

\* values application code assigns to target.prop
Assignable(target, prop) ==
  IF target = Root
  THEN IF prop = "a" THEN Prims ELSE {0, Child}
  ELSE {}

\* DiamondCore.reactive(obj) / engine.createProxy(obj); the application wraps
\* Root, the get trap wraps Child when a read returns it
Wrap(obj) ==
  \E r \in {createProxy(State, obj)} :
      /\ Len(r.s.proxyTarget) <= MaxProxies
      /\ Commit(r.s)
      /\ lastOp' = [Op("wrap", r.s) EXCEPT
                      !.changed = (Len(r.s.proxyTarget) # Len(proxyTarget)),
                      !.arg = obj, !.ret = r.v]
      /\ UNCHANGED << disposers, disposed >>

\* proxy.prop = value
Write(px, prop, value) ==
  \E S1 \in {set(State, proxyTarget[px], prop, value)} :
      /\ Commit(S1)
      /\ lastOp' = [Op("write", S1) EXCEPT
                      !.changed = (heap[proxyTarget[px]][prop] # value)]
      /\ UNCHANGED << disposers, disposed >>

\* dispose = DiamondCore.effect(Body(b)) / engine.createEffect(Body(b))
CreateEffect(b) ==
  /\ Len(fn) - 2 * Len(cells) + EffectsNeeded(b) <= MaxEffects
  /\ Captured(b) \subseteq Range(proxyTarget)
  /\ Called(b) \subseteq DOMAIN cells
  /\ \E S1 \in {createEffect(State, b)} :
         /\ Len(S1.proxyTarget) <= MaxProxies
         /\ Commit(S1)
         /\ disposers' = IF S1.thrown THEN disposers ELSE disposers \cup {Len(fn) + 1}
         /\ lastOp' = Op("createEffect", S1)
         /\ UNCHANGED disposed

\* dispose(), the closure returned by createEffect; the application calls
\* each disposer at most once
Dispose(e) ==
  /\ e \notin disposed
  /\ \E S1 \in {cleanupEffect(State, e)} :
      /\ Commit([S1 EXCEPT !.disposed = @ \cup {e}])
      /\ disposed' = disposed \cup {e}
      /\ lastOp' = Op("dispose", S1)
      /\ UNCHANGED disposers

\* the microtask queued by queueEffect runs
Flush ==
  /\ microtasks > 0
  /\ \E S1 \in {flush([State EXCEPT !.microtasks = @ - 1])} :
         /\ Len(S1.proxyTarget) <= MaxProxies
         /\ Len(S1.fn) - 2 * Len(S1.cells) <= MaxEffects
         /\ Commit(S1)
         /\ lastOp' = [Op("flush", S1) EXCEPT
                         !.multi = dups,
                         !.changed = (S1.dependencies # dependencies)]
         /\ UNCHANGED << disposers, disposed >>

Next ==
  \/ Wrap(Root)
  \/ \E px \in DOMAIN proxyTarget, prop \in Props :
       \E value \in Assignable(proxyTarget[px], prop) : Write(px, prop, value)
  \/ \E b \in BodyIds : CreateEffect(b)
  \/ \E e \in disposers : Dispose(e)
  \/ Flush

Spec == Init /\ [][Next]_vars

\* The host runs a queued microtask once the call stack has unwound: weak
\* fairness of Flush.  Flush is enabled exactly when a microtask is queued, so
\* WF_vars(Flush) is written out as "infinitely often none is queued, or
\* infinitely often a flush runs".
FlushFair == []<>(microtasks = 0) \/ []<><< lastOp'.op = "flush" >>_vars
LiveSpec == Spec /\ FlushFair

(***************************************************************************)
(* Wrappers and aliasing: application code that wraps either object, reads *)
(* through the wrappers of its plain objects and stores what it read.      *)
(***************************************************************************)
\* the plain object at the bottom of a chain of wrappers
RECURSIVE Base(_)
Base(v) == IF v \in Objs THEN v ELSE Base(proxyTarget[Child - v])

\* every wrapper the engine has returned, by createProxy or by a get trap
Wrappers == UNION {handed[t] : t \in DOMAIN handed}

\* w[prop], read by application code
Read(px, prop) ==
  /\ proxyTarget[px] \in Objs
  /\ \E r \in {get(State, proxyTarget[px], prop)} :
      /\ Len(r.s.proxyTarget) <= MaxProxies
      /\ Commit(r.s)
      /\ lastOp' = [Op("read", r.s) EXCEPT
                      !.changed = (Len(r.s.proxyTarget) # Len(proxyTarget))]
      /\ UNCHANGED << disposers, disposed >>

\* w[to] = w[from]
Alias(px, from, to) ==
  /\ proxyTarget[px] \in Objs
  /\ \E r \in {get(State, proxyTarget[px], from)} :
    \E S1 \in {set(r.s, proxyTarget[px], to, r.v)} :
      /\ Len(S1.proxyTarget) <= MaxProxies
      /\ Commit(S1)
      /\ lastOp' = [Op("alias", S1) EXCEPT
                      !.changed = (heap[proxyTarget[px]][to] # r.v)]
      /\ UNCHANGED << disposers, disposed >>

NextDeep ==
  \/ \E obj \in Objs : Wrap(obj)
  \/ \E px \in DOMAIN proxyTarget, prop \in Props :
       \E value \in Assignable(proxyTarget[px], prop) : Write(px, prop, value)
  \/ \E px \in DOMAIN proxyTarget, prop \in Props : Read(px, prop)
  \/ \E px \in DOMAIN proxyTarget, from \in Props, to \in Props : Alias(px, from, to)

DeepSpec == Init /\ [][NextDeep]_vars

(***************************************************************************)
(* Disposers that application code calls again, and effects that write or  *)
(* read conditionally.                                                     *)
(***************************************************************************)
\* dispose(), called for an effect whose disposer was called before
Redispose(e) ==
  \E S1 \in {cleanupEffect(State, e)} :
      /\ e \in disposed
      /\ Commit(S1)
      /\ lastOp' = [Op("redispose", S1) EXCEPT !.changed = (e \in DOMAIN effectDeps)]
      /\ UNCHANGED << disposers, disposed >>

NextDispose ==
  \/ Wrap(Root)
  \/ \E px \in DOMAIN proxyTarget, prop \in Props :
       \E value \in Assignable(proxyTarget[px], prop) : Write(px, prop, value)
  \/ \E b \in DisposeBodyIds : CreateEffect(b)
  \/ \E e \in disposers : Dispose(e)
  \/ \E e \in disposers : Redispose(e)
  \/ Flush

DisposeSpec == Init /\ [][NextDispose]_vars

NextRun ==
  \/ Wrap(Root)
  \/ \E px \in DOMAIN proxyTarget, prop \in Props :
       \E value \in Assignable(proxyTarget[px], prop) : Write(px, prop, value)
  \/ \E b \in RunBodyIds : CreateEffect(b)
  \/ Flush

RunSpec == Init /\ [][NextRun]_vars

(***************************************************************************)
(* Computed cells: application code that creates cells over Root, calls    *)
(* their accessors and writes the properties they read.                    *)
(***************************************************************************)
\* accessor = DiamondCore.computed(Body(g)) / engine.createComputed(Body(g))
CreateComputed(g) ==
  /\ Len(fn) + 2 <= MaxEffects
  /\ Captured(g) \subseteq Range(proxyTarget)
  /\ \E S1 \in {createComputed(State, g)} :
         /\ Len(S1.proxyTarget) <= MaxProxies
         /\ Commit(S1)
         /\ lastOp' = Op("createComputed", S1)
         /\ UNCHANGED << disposers, disposed >>

\* accessor(), called by application code
Access(c) ==
  \E r \in {access(State, c)} :
      /\ Len(r.s.proxyTarget) <= MaxProxies
      /\ Commit(r.s)
      /\ lastOp' = [Op("access", r.s) EXCEPT !.ret = r.v]
      /\ UNCHANGED << disposers, disposed >>

NextComp ==
  \/ Wrap(Root)
  \/ \E px \in DOMAIN proxyTarget, prop \in Props :
       \E value \in Assignable(proxyTarget[px], prop) : Write(px, prop, value)
  \/ \E g \in GetterIds : CreateComputed(g)
  \/ \E c \in DOMAIN cells : Access(c)
  \/ Flush

CompSpec == Init /\ [][NextComp]_vars

(***************************************************************************)
(* Effects over computed cells: application code whose effects call the    *)
(* accessor of a computed cell.                                            *)
(***************************************************************************)
NextOver ==
  \/ Wrap(Root)
  \/ \E px \in DOMAIN proxyTarget, prop \in Props :
       \E value \in Assignable(proxyTarget[px], prop) : Write(px, prop, value)
  \/ \E g \in GetterIds : CreateComputed(g)
  \/ CreateEffect(10)
  \/ Flush

OverSpec == Init /\ [][NextOver]_vars

(***************************************************************************)
(* Self-assignment: application code that stores an object in a property,  *)
(* observes the property and assigns it to itself.                         *)
(***************************************************************************)
\* w[prop] = w[prop]
SelfAssign(px, prop) == Alias(px, prop, prop)

NextSelf ==
  \/ Wrap(Root)
  \/ \E px \in DOMAIN proxyTarget, prop \in Props :
       \E value \in Assignable(proxyTarget[px], prop) : Write(px, prop, value)
  \/ \E px \in DOMAIN proxyTarget, prop \in Props : SelfAssign(px, prop)
  \/ CreateEffect(11)
  \/ Flush

SelfSpec == Init /\ [][NextSelf]_vars

(***************************************************************************)
(* Wrappers of wrappers: application code that passes a wrapper to         *)
(* DiamondCore.reactive, and generated constructors that call              *)
(* DiamondCore.makeReactive for a property more than once.                 *)
(***************************************************************************)
\* DiamondCore.reactive(w) for a wrapper w the engine handed out
Rewrap(px) == Wrap(ProxyRef(px))

\* DiamondCore.makeReactive(target, property)
MakeReactive(target, property) ==
  \E S1 \in {makeReactive(State, target, property)} :
      /\ Len(S1.proxyTarget) <= MaxProxies
      /\ Commit(S1)
      /\ lastOp' = [Op("makeReactive", S1) EXCEPT
                      !.changed = (S1.heap # heap),
                      !.arg = heap[target][property]]
      /\ UNCHANGED << disposers, disposed >>

NextLayer ==
  \/ \E obj \in Objs : Wrap(obj)
  \/ \E px \in DOMAIN proxyTarget : Rewrap(px)
  \/ \E px \in DOMAIN proxyTarget, prop \in Props :
       \E value \in Assignable(proxyTarget[px], prop) : Write(px, prop, value)
  \/ \E prop \in Props : MakeReactive(Root, prop)

LayerSpec == Init /\ [][NextLayer]_vars

(***************************************************************************)
(* Invalid targets: application code that also passes primitives and null  *)
(* to createProxy.                                                         *)
(***************************************************************************)
NextWrap ==
  \/ \E obj \in {Root} \cup Prims \cup {Null} : Wrap(obj)
  \/ \E px \in DOMAIN proxyTarget, prop \in Props :
       \E value \in Assignable(proxyTarget[px], prop) : Write(px, prop, value)
  \/ CreateEffect(1)
  \/ Flush

WrapSpec == Init /\ [][NextWrap]_vars

(***************************************************************************)
(* Bodies that throw: application code that creates effects whose body can *)
(* throw and reads through the wrapper outside any effect.                 *)
(***************************************************************************)
NextError ==
  \/ Wrap(Root)
  \/ \E px \in DOMAIN proxyTarget, prop \in Props :
       \E value \in Assignable(proxyTarget[px], prop) : Write(px, prop, value)
  \/ \E px \in DOMAIN proxyTarget, prop \in Props : Read(px, prop)
  \/ \E b \in ErrorBodyIds : CreateEffect(b)
  \/ Flush

ErrorSpec == Init /\ [][NextError]_vars

(***************************************************************************)
(* Bindings: application code that binds element properties to getters     *)
(* over Root, one way or two ways, edits the elements and calls the        *)
(* cleanup functions.                                                      *)
(***************************************************************************)
\* cleanup = DiamondCore.bind(el, property, Body(g), two ? setter : undefined)
Bind(g, two) ==
  /\ Len(fn) + 1 <= MaxEffects
  /\ Len(binds) + 1 <= MaxBinds
  /\ Captured(g) \subseteq Range(proxyTarget)
  /\ \E S1 \in {bind(State, g, two)} :
         /\ Len(S1.proxyTarget) <= MaxProxies
         /\ Commit(S1)
         /\ disposers' = IF S1.thrown THEN disposers ELSE disposers \cup {Len(fn) + 1}
         /\ lastOp' = Op("bind", S1)
         /\ UNCHANGED disposed

\* cleanup(), called once per binding
Unbind(b) ==
  /\ ~binds[b].cleaned
  /\ \E S1 \in {unbind(State, b)} :
         /\ Commit(S1)
         /\ disposed' = disposed \cup {binds[b].e}
         /\ lastOp' = Op("unbind", S1)
         /\ UNCHANGED disposers

\* el[property] = v by the user, then el.dispatchEvent(new Event('input')),
\* for an element that was bound two ways
Input(b, v) ==
  \E S1 \in {input(State, b, v)} :
      /\ binds[b].two
      /\ Commit(S1)
      /\ lastOp' = [Op("input", S1) EXCEPT !.changed = (heap[Root]["a"] # v),
                                           !.who = b, !.arg = v]
      /\ UNCHANGED << disposers, disposed >>

NextBind ==
  \/ Wrap(Root)
  \/ \E px \in DOMAIN proxyTarget, prop \in Props :
       \E value \in Assignable(proxyTarget[px], prop) : Write(px, prop, value)
  \/ \E g \in BindGetterIds, two \in BOOLEAN : Bind(g, two)
  \/ \E b \in DOMAIN binds : Unbind(b)
  \/ \E b \in DOMAIN binds, v \in Prims : Input(b, v)
  \/ Flush

BindSpec == Init /\ [][NextBind]_vars

(***************************************************************************)
(* Decorated properties: application code that assigns the decorated       *)
(* property of two instances of one class and creates effects that read it.*)
(***************************************************************************)
\* inst.count = value, for instance i
Assign(i, value) ==
  \E S1 \in {reactiveSet(State, i, value)} :
      /\ Len(S1.proxyTarget) <= MaxProxies
      /\ Commit(S1)
      /\ lastOp' = [Op("assign", S1) EXCEPT !.who = i, !.changed = (S1.queue # queue)]
      /\ UNCHANGED << disposers, disposed >>

NextProp ==
  \/ \E i \in Instances, value \in Prims : Assign(i, value)
  \/ \E b \in PropBodyIds : CreateEffect(b)
  \/ Flush

PropSpec == Init /\ [][NextProp]_vars

(***************************************************************************)
(* Components: application code that mounts and unmounts its components    *)
(* and registers cleanups with them.                                       *)
(***************************************************************************)
\* component.mount(host)
Mount(c) ==
  /\ Len(host) + 1 <= MaxChildren
  /\ \E S1 \in {mount(State, c)} :
         /\ Commit([S1 EXCEPT !.components[c].mounted = @ \/ ~S1.thrown])
         /\ lastOp' = [Op("mount", S1) EXCEPT !.who = c]
         /\ UNCHANGED << disposers, disposed >>

\* component.unmount()
Unmount(c) ==
  \E S1 \in {unmount(State, c)} :
      /\ Commit([S1 EXCEPT !.components[c].mounted = FALSE])
      /\ lastOp' = [Op("unmount", S1) EXCEPT !.who = c]
      /\ UNCHANGED << disposers, disposed >>

\* component.registerCleanup(cleanup)
RegisterCleanup(c, k) ==
  /\ Len(components[c].cleanups) + 1 <= MaxCleanups
  /\ \E S1 \in {registerCleanup(State, c, k)} :
         /\ Commit(S1)
         /\ lastOp' = [Op("registerCleanup", S1) EXCEPT !.who = c]
         /\ UNCHANGED << disposers, disposed >>

NextMount ==
  \/ \E c \in Components : Mount(c)
  \/ \E c \in Components : Unmount(c)
  \/ \E c \in Components, k \in CleanupIds : RegisterCleanup(c, k)

MountSpec == Init /\ [][NextMount]_vars

(***************************************************************************)
(* Properties                                                              *)
(***************************************************************************)
Effects == DOMAIN fn
Edges(e) == {k \in Objs \X Props : e \in Range(DepOf(State, k[1], k[2]))}
FlushStep == lastOp'.op = "flush"
WriteStep == lastOp'.op = "write"
ChangedKeys == {k \in Objs \X Props : heap'[k[1]][k[2]] # heap[k[1]][k[2]]}
IsPrefix(s, t) == Len(s) <= Len(t) /\ SubSeq(t, 1, Len(s)) = s

\* C1 (Batching): a flush invokes exactly once every effect that changing
\* writes since the previous flush found registered on the written property,
\* however many such writes there were.
C1_Batching ==
  [][FlushStep => \A e \in written : Count(lastOp'.inv, e) = 1]_vars

\* a flush has run an effect once that several changing writes had handed over
C1_Witness ==
  /\ lastOp.op = "flush"
  /\ lastOp.multi
  /\ lastOp.inv # << >>

\* C2 (Disposal correctness): no flush runs an effect because of a write made
\* after the effect's disposer was called.
C2_DisposalCorrectness ==
  [][FlushStep => \A e \in late : e \notin Range(lastOp'.inv)]_vars

\* C3 (Schedule/dispose race): an effect that is pending and disposed when the
\* flush starts is skipped by that flush.
C3_FlushSkipsDisposed ==
  [][FlushStep => \A e \in Range(queue) \cap disposed : e \notin Range(lastOp'.inv)]_vars

\* C4 (Equal-value no-op): a write of a value equal to the current one leaves
\* the pending set, the flush-scheduled flag and the microtask queue unchanged.
C4_EqualValueNoOp ==
  [][WriteStep /\ ~lastOp'.changed =>
       /\ queue' = queue
       /\ flushing' = flushing
       /\ microtasks' = microtasks]_vars

\* an equal-value write was made while every property of Root had a dependent
C4_Witness ==
  /\ lastOp.op = "write"
  /\ ~lastOp.changed
  /\ \A p \in Props : DepOf(State, Root, p) # << >>

\* C5 (Propagation liveness): a live effect owed a re-run by a changing write
\* to a property it read under tracking is in the pending set, and a flush
\* eventually runs it.
C5_PropagationLiveness ==
  /\ [](pend \subseteq Range(queue))
  /\ \A e \in 1..MaxEffects : (e \in pend) ~> (e \notin pend)

\* a flush has just re-run a live effect that had read a property
C5_Witness ==
  /\ lastOp.op = "flush"
  /\ \E e \in Range(lastOp.inv) : e \notin disposed /\ everRead[e] # {}
  /\ pend = {}

\* C6 (No spurious runs): a write newly schedules an effect only if it changed
\* a property the effect has read under tracking.
C6_NoSpuriousRuns ==
  [][WriteStep =>
       \A e \in Effects :
          (e \in Range(queue') /\ e \notin Range(queue)) =>
             \E k \in ChangedKeys : k \in everRead[e]]_vars

\* a changing write was made while effects had edges, and nothing was scheduled
C6_Witness ==
  /\ lastOp.op = "write"
  /\ lastOp.changed
  /\ DOMAIN effectDeps # {}
  /\ queue = << >>

\* C7 (Eager first run): createEffect runs the new effect once, and every
\* property its body read in that run is an edge of the effect.
C7_FirstRunTracked ==
  lastOp.op = "createEffect" =>
     LET e == lastOp.inv[1]
     IN  /\ Count(lastOp.inv, e) = 1
         /\ \A r \in lastOp.reads : r[1] = e => << r[2], r[3] >> \in Edges(e)

\* C8 (Deferred execution): no effect is invoked inside a write, a wrap or a
\* disposer; createEffect invokes only the closures it has just built.
C8_DeferredExecution ==
  /\ lastOp.op \in {"write", "wrap", "dispose"} => lastOp.inv = << >>
  /\ lastOp.op = "createEffect" =>
        \A i \in DOMAIN lastOp.inv : /\ lastOp.inv[i] >= lastOp.inv[1]
                                     /\ Count(lastOp.inv, lastOp.inv[i]) = 1

\* a changing write has handed an effect to the scheduler without running it
C8_Witness ==
  /\ lastOp.op = "write"
  /\ lastOp.changed
  /\ queue # << >>
  /\ microtasks > 0

\* C9 (Flush isolation): a flush invokes every effect of its batch, logs each
\* exception thrown by one of them once, and lets none escape.
C9_FlushIsolation ==
  [][FlushStep =>
       /\ Range(queue) \subseteq Range(lastOp'.inv)
       /\ lastOp'.logged = lastOp'.throws
       /\ ~lastOp'.thrown]_vars

\* a flush has run an effect after another effect of the batch threw
C9_Witness ==
  /\ lastOp.op = "flush"
  /\ lastOp.throws > 0
  /\ \E i, j \in DOMAIN lastOp.inv :
        i < j /\ fn[lastOp.inv[i]] = 2 /\ fn[lastOp.inv[j]] # 2

C11_DeepIdentity ==
  \A o \in Objs : Cardinality({w \in Wrappers : Base(w) = o}) <= 1

\* what getter g returns on the current state
GetterValue(g) == RunBody([State EXCEPT !.activeEffect = 0], Body(g)).ret

\* C12 (Lazy computed): createComputed returns without having invoked getter.
C12_LazyComputed ==
  lastOp.op = "createComputed" => lastOp.gets = 0

\* C13 (Computed caching): since the last change of a property its getter
\* read, a cell has invoked getter at most once, and not at all while its
\* accessor has never been called.
C13_ComputedCaching ==
  \A c \in DOMAIN cells :
     /\ cells[c].runs <= 1
     /\ ~cells[c].accessed => cells[c].runs = 0

\* C14 (Inert invalidation): neither a write nor a flush invokes a getter; the
\* scheduled run of a cell only sets dirty.
C14_InertInvalidation ==
  lastOp.op \in {"write", "flush"} => lastOp.gets = 0

\* C15 (Computed freshness): a cell that is not dirty holds the value of its
\* getter on the current state, so its accessor never returns a stale value.
C15_ComputedFreshness ==
  \A c \in DOMAIN cells :
     ~cells[c].dirty => cells[c].cached = GetterValue(cells[c].g)

\* C16 (Nested tracking): a tracked run that begins while another dependent
\* is active leaves that dependent active when it returns.
C16_NestedTracking ==
  ~lastOp.clobber

\* C18 (Flush order): a write leaves the pending dependents where they are and
\* puts the ones it newly schedules after them, and a flush invokes the
\* dependents of its batch in that order.
C18_FlushOrder ==
  [][/\ WriteStep => IsPrefix(queue, queue')
     /\ FlushStep =>
          SelectSeq(lastOp'.inv, LAMBDA e : e \in Range(queue)) = queue]_vars

\* a flush has run two effects, the younger first, after one of its effects
\* had been scheduled a second time
C18_Witness ==
  /\ lastOp.op = "flush"
  /\ lastOp.multi
  /\ \E i, j \in DOMAIN lastOp.inv :
        i < j /\ lastOp.inv[j] < lastOp.inv[i] /\ lastOp.inv[i] \in disposers

\* a call changed neither the edges, the reverse index nor the scheduler, and
\* threw nothing
Untouched ==
  /\ dependencies' = dependencies
  /\ effectDeps' = effectDeps
  /\ queue' = queue
  /\ flushing' = flushing
  /\ microtasks' = microtasks
  /\ ~lastOp'.thrown

\* C17 (Dispose is idempotent): a disposer called again for an effect that
\* has recorded no edge since the previous call, or called for an effect that
\* never recorded one, throws nothing and changes neither the edges, the
\* reverse index nor the pending set.
C17_DisposeIdempotent ==
  [][/\ lastOp'.op = "redispose" /\ ~lastOp'.changed => Untouched
     /\ lastOp'.op = "dispose" =>
          \A e \in disposed' \ disposed : e \notin DOMAIN effectDeps => Untouched]_vars

\* a disposer was called again, for an effect without edges, while another
\* effect had edges and effects were pending
C17_Witness ==
  /\ lastOp.op = "redispose"
  /\ ~lastOp.changed
  /\ DOMAIN effectDeps # {}
  /\ queue # << >>

\* C19 (Re-entrant scheduling): a flush invokes once each dependent pending at
\* its start and no other; a dependent scheduled while it runs is pending
\* afterwards, with the flag set and a microtask requested for the next flush.
C19_ReentrantScheduling ==
  [][FlushStep =>
       /\ \A e \in DOMAIN fn :
             Count(lastOp'.inv, e) = IF e \in Range(queue) THEN 1 ELSE 0
       /\ queue' # << >> => flushing' /\ microtasks' > 0]_vars

\* a flush has run an effect whose body wrote the property it reads, and the
\* effect is pending again
C19_Witness ==
  /\ lastOp.op = "flush"
  /\ \E e \in Range(queue) \cap Range(lastOp.inv) : fn[e] = 5
  /\ microtasks > 0

\* C20 (Mark-and-sweep per run): after a run of an effect, the edges that
\* contain it are exactly the properties its body read during that run.
C20_MarkAndSweep ==
  lastOp.op \in {"createEffect", "flush"} =>
     \A e \in Range(lastOp.inv) :
        Edges(e) = {<< r[2], r[3] >> : r \in {x \in lastOp.reads : x[1] = e}}

\* C21 (Disposed is terminal): an effect whose disposer has been called is in
\* no dep set and has no entry in the reverse index.
C21_DisposedTerminal ==
  \A e \in disposed : e \notin DOMAIN effectDeps /\ Edges(e) = {}

\* C22 (Binding teardown): no call assigns the element property of a binding
\* whose cleanup function has been called, and none calls its setter.
C22_BindingTeardown ==
  \A b \in DOMAIN binds :
     binds[b].cleaned => b \notin lastOp.sinks /\ b \notin lastOp.setters

C24_TrackingError ==
  [][/\ lastOp'.op = "createEffect" /\ lastOp'.throws > 0 =>
          lastOp'.thrown /\ lastOp'.logged = 0 /\ activeEffect' = 0
     /\ lastOp'.op = "read" =>
          dependencies' = dependencies /\ effectDeps' = effectDeps]_vars

\* application code has read a property through the wrapper after a
\* createEffect threw, while another effect had edges
C24_Witness ==
  /\ lastOp.op = "read"
  /\ DOMAIN fn \ disposers # {}
  /\ DOMAIN effectDeps # {}

\* C25 (Component teardown): unmount invokes the registered cleanups once
\* each in registration order, logs every exception one of them throws,
\* throws nothing itself and leaves the list empty; so an unmount that finds
\* the list empty invokes none.
C25_ComponentTeardown ==
  [][lastOp'.op = "unmount" =>
       /\ lastOp'.ran = components[lastOp'.who].cleanups
       /\ lastOp'.logged = Len(SelectSeq(lastOp'.ran, CleanupThrows))
       /\ ~lastOp'.thrown
       /\ components'[lastOp'.who].cleanups = << >>]_vars

\* an unmount has invoked a cleanup after an earlier one threw
C25_Witness ==
  /\ lastOp.op = "unmount"
  /\ Len(lastOp.ran) >= 2
  /\ CleanupThrows(lastOp.ran[1])
  /\ lastOp.logged >= 1

\* C26 (Component element lifecycle): getElement() is non-null exactly when
\* a mount has returned since the last unmount, and a mount that throws
\* leaves the element null and the host's children as they were.
C26_ElementLifecycle ==
  [][/\ \A c \in Components :
          (components'[c].element # 0) <=> components'[c].mounted
     /\ lastOp'.op = "mount" /\ lastOp'.thrown =>
          components'[lastOp'.who].element = 0 /\ host' = host]_vars

\* a mount of the component without createTemplate has thrown while another
\* component was mounted
C26_Witness ==
  /\ lastOp.op = "mount"
  /\ lastOp.thrown
  /\ \E c \in Components : components[c].element # 0

\* the value inst.count has for instance i
PropValue(i) ==
  IF storage[i] = 0 THEN Undefined ELSE heap[proxyTarget[storage[i]]]["value"]

\* effects that have read the decorated property of instance i and nothing else
ReadersOnlyOf(i) ==
  {e \in DOMAIN fn :
     /\ storage[i] # 0
     /\ everRead[e] = {<< proxyTarget[storage[i]], "value" >>}}

\* C27 (Per-instance isolation): an assignment to the decorated property of
\* one instance leaves the value of the property of every other instance as
\* it was and adds no effect that has read only another instance's property
\* to the pending set.
C27_InstanceIsolation ==
  [][lastOp'.op = "assign" =>
       \A j \in Instances \ {lastOp'.who} :
          /\ PropValue(j)' = PropValue(j)
          /\ \A e \in ReadersOnlyOf(j) :
                e \in Range(queue') => e \in Range(queue)]_vars

\* an assignment to one instance has scheduled an effect while an effect that
\* reads the other instance's property, which holds another value, is not
\* pending
C27_Witness ==
  /\ lastOp.op = "assign"
  /\ lastOp.changed
  /\ \E j \in Instances \ {lastOp.who} :
        /\ PropValue(j) # PropValue(lastOp.who)
        /\ ReadersOnlyOf(j) # {}
        /\ ReadersOnlyOf(j) \cap Range(queue) = {}

\* C28 (Invalid wrap target): createProxy called with a primitive or null
\* throws, and leaves the Proxy instances, the wrapper cache, the edges, the
\* reverse index and the scheduler as they were.
C28_InvalidWrapTarget ==
  [][lastOp'.op = "wrap" /\ ~IsObject(lastOp'.arg) =>
       /\ lastOp'.thrown
       /\ proxyTarget' = proxyTarget
       /\ proxyCache' = proxyCache
       /\ dependencies' = dependencies
       /\ effectDeps' = effectDeps
       /\ queue' = queue
       /\ flushing' = flushing
       /\ microtasks' = microtasks]_vars

\* createProxy(null) has thrown while a wrapper was cached, an effect had an
\* edge and an effect was pending
C28_Witness ==
  /\ lastOp.op = "wrap"
  /\ lastOp.arg = Null
  /\ lastOp.thrown
  /\ proxyCache # EmptyMap
  /\ DOMAIN effectDeps # {}
  /\ queue # << >>

\* C29 (Scheduler invariant): between calls at most one flush microtask is
\* queued, flushing is true exactly when one is, and one is queued whenever
\* the pending set is not empty.
C29_SchedulerInvariant ==
  /\ microtasks <= 1
  /\ flushing <=> microtasks = 1
  /\ queue # << >> => microtasks = 1

\* a flush has ended with a dependent pending that one of its effects
\* scheduled, the flag set and one microtask queued
C29_Witness ==
  /\ lastOp.op = "flush"
  /\ lastOp.inv # << >>
  /\ queue # << >>
  /\ flushing
  /\ microtasks = 1

C31_DisposeFrame ==
  [][/\ lastOp'.op = "dispose" =>
          \A e \in disposed' \ disposed :
             /\ \A k \in Objs \X Props :
                   DepOf(State, k[1], k[2])' = Without(DepOf(State, k[1], k[2]), e)
             /\ effectDeps' = Drop(effectDeps, e)
     /\ WriteStep =>
          \A k \in ChangedKeys :
             Range(DepOf(State, k[1], k[2])) \subseteq Range(queue')]_vars

\* a changing write has scheduled an effect that shared the written property
\* with an effect disposed before the write
C31_Witness ==
  /\ lastOp.op = "write"
  /\ lastOp.changed
  /\ \E e \in disposed, f \in Range(queue) \ disposed :
        /\ e \notin DOMAIN effectDeps
        /\ everRead[e] \cap Edges(f) # {}

\* the dep sets the reverse index holds for effect e
SetsOf(e) == IF e \in DOMAIN effectDeps THEN effectDeps[e] ELSE {}

\* C32 (Reverse-index consistency): the dep set of (object, property) is in
\* effectDeps[e] exactly when e is a member of it.
C32_ReverseIndex ==
  \A e \in 1..MaxEffects :
     \A k \in Objs \X Props :
        k \in SetsOf(e) <=> e \in Range(DepOf(State, k[1], k[2]))

\* a flush has registered again an effect whose disposer had been called,
\* while another effect has edges
C32_Witness ==
  /\ lastOp.op = "flush"
  /\ \E e \in disposed : SetsOf(e) # {}
  /\ \E f \in DOMAIN fn \ disposed : SetsOf(f) # {}


\* C33 (Effects over computed cells): a write that changes a property read by
\* the getter of a computed cell schedules every live effect whose body calls
\* the accessor of that cell, so the next flush re-runs it.
C33_EffectsOverComputed ==
  [][WriteStep =>
       \A c \in DOMAIN cells :
          \A k \in ChangedKeys \cap (everRead[cells[c].rec] \cup everRead[cells[c].inval]) :
             \A e \in DOMAIN fn \ disposed :
                c \in Called(fn[e]) => e \in Range(queue')]_vars


\* C34 (Failed creation leaves no residue): an effect whose body threw during
\* the initial run, so that createEffect returned no disposer, is in no
\* dependency edge and is never scheduled by a later write.
C34_NoResidue ==
  \A e \in DOMAIN fn \ (disposers \cup disposed) :
     Edges(e) = {} /\ e \notin Range(queue)


C36_SelfAssignment ==
  [][lastOp'.op = "alias" => heap' = heap /\ queue' = queue]_vars


\* a wrapper the engine has handed out
IsWrapper(v) == \E i \in DOMAIN proxyTarget : v = ProxyRef(i)

\* C37 (Wrapping a wrapper): createProxy applied to a wrapper returns that
\* wrapper and constructs no Proxy, and makeReactive on a property that holds
\* a wrapper leaves the property as it is.
C37_WrapWrapper ==
  [][/\ (lastOp'.op = "wrap" /\ IsWrapper(lastOp'.arg)) =>
          lastOp'.ret = lastOp'.arg /\ proxyTarget' = proxyTarget
     /\ (lastOp'.op = "makeReactive" /\ IsWrapper(lastOp'.arg)) =>
          heap' = heap /\ proxyTarget' = proxyTarget]_vars


\* C38 (Quiescence): while no effect body writes, at most one flush is
\* scheduled at a time however many writes there were; when it has run no
\* effect is pending and no flush is scheduled; and only a changing write by
\* the application schedules a flush.
C38_Quiescence ==
  [][/\ microtasks' <= 1
     /\ FlushStep => queue' = << >> /\ pend' = {} /\ microtasks' = 0 /\ ~flushing'
     /\ microtasks' > microtasks => WriteStep /\ lastOp'.changed]_vars

\* one flush has just run the effects that several writes had scheduled
C38_Witness ==
  /\ lastOp.op = "flush" /\ lastOp.multi /\ lastOp.inv # << >>
  /\ queue = << >> /\ microtasks = 0 /\ ~flushing


\* C39 (Two-way binding converges): an input event of an element bound with a
\* setter calls the setter at once with the value the element holds, so the
\* state takes that value, and the view effect is then queued at most once
\* with at most one flush requested; the flush that follows calls no setter,
\* leaves nothing queued and no flush requested, and leaves the element of
\* every binding that still listens equal to the state.
C39_TwoWayConverges ==
  [][/\ lastOp'.op = "input" =>
          \A b \in DOMAIN binds :
             lastOp'.who = b /\ binds[b].listening =>
                /\ lastOp'.setters = {b}
                /\ binds'[b].shown = lastOp'.arg
                /\ heap'[Root]["a"] = lastOp'.arg
                /\ lastOp'.sinks = {}
                /\ Count(queue', binds[b].e) <= 1
                /\ lastOp'.changed => binds[b].e \in Range(queue')
                /\ microtasks' <= 1
     /\ FlushStep =>
          /\ lastOp'.setters = {}
          /\ queue' = << >> /\ microtasks' = 0 /\ ~flushing'
          /\ \A b \in DOMAIN binds :
                binds[b].listening => binds'[b].shown = heap'[Root]["a"]]_vars

\* the user has typed a new value into an element bound two ways: the state
\* holds it and the view effect waits for the one flush requested
C39_Witness ==
  /\ lastOp.op = "input" /\ lastOp.changed
  /\ \E b \in lastOp.setters :
        /\ binds[b].listening
        /\ binds[b].shown = heap[Root]["a"]
        /\ binds[b].e \in Range(queue)
  /\ microtasks = 1

====
